---- MODULE Spec2Model ----
(***************************************************************************)
(* Model of src/rendering.rs: the RenderingContext (create, create_surface,*)
(* make_gl_context_current, resize, present, size, size2d) over a platform *)
(* layer (glutin display, context, surfaces, GL driver) whose outcomes are *)
(* nondeterministic, and the configuration selector gl_config_picker.      *)
(*                                                                         *)
(* Every driver call an operation issues is recorded, in order and with    *)
(* its arguments and outcome, in `calls` (the calls of the last operation).*)
(* A Rust panic (unwrap / expect on a failure) is the result "Panic": the  *)
(* operation returns nothing and the thread of the context is gone.        *)
(***************************************************************************)
EXTENDS Integers, Sequences, FiniteSets, TLC

\* ------------------------------------------------------------------ bounds
MaxSurfaces == 3    \* surfaces created over the life of one context
MaxConfigs  == 2    \* distinct Config objects a caller may hand to create
MaxLen      == 3    \* longest configuration sequence given to the selector
MaxSamples  == 2    \* largest num_samples() of a candidate

\* ------------------------------------------------------- u32 / i32 values
\* A u32 is hi * 2^31 + lo with hi in 0..1 and lo in 0..2^31-1, so that the
\* values of 2^31 and more are represented exactly.
U32(h, l) == [hi |-> h, lo |-> l]

\* The pixel dimensions the callers pass: 0, 800 and 2^31.
Dims == {U32(0, 0), U32(0, 800), U32(1, 0)}

\* PhysicalSize<u32>
PhysicalSize(w, h) == [width |-> w, height |-> h]

Sizes == {PhysicalSize(w, h) : w \in Dims, h \in Dims}

\* NonZeroU32::new(x): None exactly for x = 0.
NonZeroU32_new(x) == IF x.hi = 0 /\ x.lo = 0 THEN "None" ELSE "Some"

\* `x as i32`: the 32 bits of x read as two's complement.
as_i32(x) == IF x.hi = 1 THEN x.lo - 2147483647 - 1 ELSE x.lo

\* Size2D::new(size.width, size.height)
Size2D_new(w, h) == [width |-> w, height |-> h]

\* --------------------------------------------------------- platform layer
\* The three context attribute sets create builds, in the order it builds them.
Profiles == {"Core", "Gles", "Legacy"}

\* What context_api() of a context created from each attribute set can report:
\* the default attributes name no API, so the platform chooses it.
ApisOf(profile) ==
    CASE profile = "Core"   -> {"OpenGl", "Gles"}
      [] profile = "Gles"   -> {"Gles"}
      [] profile = "Legacy" -> {"OpenGl"}

Call(f, a, r) == [fn |-> f, arg |-> a, ok |-> r]

NoSurface == 0
NoConfig  == 0
NoContext == [profile |-> "None", api |-> "None", config |-> NoConfig]
NoSize    == PhysicalSize(U32(0, 0), U32(0, 0))
NoRet     == [op |-> "none", surface |-> NoSurface, size |-> NoSize,
              res |-> "none", val |-> NoSize, was |-> NoSurface]

\* ------------------------------------------------------------ the selector
\* A glutin Config as the selector sees it.
Transparency == {"None", "SomeFalse", "SomeTrue"}

Config(i, n, t) == [id |-> i, num_samples |-> n, supports_transparency |-> t]

NoPick == Config(0, 0, "None")

\* Option<bool>::unwrap_or(false)
unwrap_or_false(t) == t = "SomeTrue"

\* The sequences of n configurations the display enumeration can produce: the
\* i-th Config is its own object (id i), with any sample count and
\* transparency answer.
ConfigSeqs(n) ==
    { [i \in 1..n |-> Config(i, f[i][1], f[i][2])] :
        f \in [1..n -> (0..MaxSamples) \X Transparency] }

VARIABLES
    phase,      \* "Uninitialized", "Live" (create returned Ok), "Panicked"
    this,       \* the RenderingContext: [context, size, gl]
    surfaces,   \* surfaces[s]: the config surface s was created from
    bound,      \* the surface the context is current on (driver state)
    viewport,   \* the GL viewport last set: <<x, y, w, h>>, <<>> before any
    calls,      \* the platform calls issued by the last operation
    ret,        \* the last operation: arguments, result, binding it found
    configs,    \* the selector's input sequence
    picked      \* the selector's outcome: [res, config]

vars == <<phase, this, surfaces, bound, viewport, calls, ret, configs, picked>>

rcVars == <<phase, this, surfaces, bound, viewport, calls, ret>>

pickVars == <<configs, picked>>

\* The record of an operation: its name, surface and size arguments, its result,
\* the value it returned, and the surface the context was current on when it
\* was called.
Ret(o, s, sz, r, v) ==
    [op |-> o, surface |-> s, size |-> sz, res |-> r, val |-> v, was |-> bound]

\* picker_closure with >= for >: a later candidate wins a tie in samples.
picker_closure_ge(accum, config) ==
    LET transparency_check ==
            unwrap_or_false(config.supports_transparency)
            /\ ~unwrap_or_false(accum.supports_transparency)
    IN  IF transparency_check \/ config.num_samples >= accum.num_samples
        THEN config
        ELSE accum

\* gl_config_picker's closure: the running best `accum` against the next `config`.
picker_closure(accum, config) ==
    LET transparency_check ==
            unwrap_or_false(config.supports_transparency)
            /\ ~unwrap_or_false(accum.supports_transparency)
    IN  IF transparency_check \/ config.num_samples > accum.num_samples
        THEN config
        ELSE accum

\* Iterator::reduce from the second element on, `accum` being the fold so far.
RECURSIVE reduce(_, _)
reduce(accum, rest) ==
    IF rest = <<>> THEN accum
    ELSE reduce(picker_closure(accum, Head(rest)), Tail(rest))

\* gl_config_picker with unwrap_or_default in place of unwrap.
gl_config_picker_default(cs) ==
    IF cs = <<>>
    THEN [res |-> "Ok", config |-> NoPick]
    ELSE [res |-> "Ok", config |-> reduce(Head(cs), Tail(cs))]

\* configs.reduce(..).unwrap(): reduce gives None for an empty iterator and
\* unwrap panics on it.
gl_config_picker(cs) ==
    IF cs = <<>>
    THEN [res |-> "Panic", config |-> NoPick]
    ELSE [res |-> "Ok", config |-> reduce(Head(cs), Tail(cs))]

\* ------------------------------------------------------------------ create
\* create_context_chain with the two fallbacks swapped: legacy before GLES.
create_context_chain_legacy_first(ok) ==
    IF ok["Core"]
    THEN [calls |-> <<Call("create_context", "Core", TRUE)>>, profile |-> "Core"]
    ELSE IF ok["Legacy"]
    THEN [calls |-> <<Call("create_context", "Core", FALSE),
                      Call("create_context", "Legacy", TRUE)>>,
          profile |-> "Legacy"]
    ELSE IF ok["Gles"]
    THEN [calls |-> <<Call("create_context", "Core", FALSE),
                      Call("create_context", "Legacy", FALSE),
                      Call("create_context", "Gles", TRUE)>>,
          profile |-> "Gles"]
    ELSE [calls |-> <<Call("create_context", "Core", FALSE),
                      Call("create_context", "Legacy", FALSE),
                      Call("create_context", "Gles", FALSE)>>,
          profile |-> "None"]

\* The nested unwrap_or_else chain: ok[p] is the display's answer to
\* create_context with the attributes of profile p. profile "None": all failed
\* and expect("failed to create context") panics.
create_context_chain(ok) ==
    IF ok["Core"]
    THEN [calls |-> <<Call("create_context", "Core", TRUE)>>, profile |-> "Core"]
    ELSE IF ok["Gles"]
    THEN [calls |-> <<Call("create_context", "Core", FALSE),
                      Call("create_context", "Gles", TRUE)>>,
          profile |-> "Gles"]
    ELSE IF ok["Legacy"]
    THEN [calls |-> <<Call("create_context", "Core", FALSE),
                      Call("create_context", "Gles", FALSE),
                      Call("create_context", "Legacy", TRUE)>>,
          profile |-> "Legacy"]
    ELSE [calls |-> <<Call("create_context", "Core", FALSE),
                      Call("create_context", "Gles", FALSE),
                      Call("create_context", "Legacy", FALSE)>>,
          profile |-> "None"]

\* load_gl that loads the desktop table whatever the context reports.
load_gl_always_gl(api) == "GlFns"

\* match context.context_api(): the table loaded for the API the context reports.
load_gl(api) == IF api = "OpenGl" THEN "GlFns" ELSE "GlesFns"

\* after_make_current that loads both tables, the GLES one last.
after_make_current_reload(api, vsyncOk) ==
    << Call("set_swap_interval", 1, vsyncOk),
       Call("load_with", "GlFns", TRUE),
       Call("load_with", "GlesFns", TRUE),
       Call("get_string", "RENDERER", TRUE),
       Call("get_string", "VERSION", TRUE),
       Call("get_string", "SHADING_LANGUAGE_VERSION", TRUE) >>

\* The calls of create after the context is current on the new surface.
after_make_current(api, vsyncOk) ==
    << Call("set_swap_interval", 1, vsyncOk),
       Call("load_with", load_gl(api), TRUE),
       Call("get_string", "RENDERER", TRUE),
       Call("get_string", "VERSION", TRUE),
       Call("get_string", "SHADING_LANGUAGE_VERSION", TRUE) >>

\* create_run that goes on when the initial make_current is rejected.
create_run_ignores_bind(gl_config, ok, api, attrsOk, surfOk, bindOk, vsyncOk) ==
    LET cc    == create_context_chain(ok)
        attrs == Call("build_surface_attributes", gl_config, attrsOk)
        surf  == Call("create_window_surface", gl_config, surfOk)
        mc    == Call("make_current", 1, bindOk)
        fail(cs) == [res |-> "Panic", calls |-> cs, context |-> NoContext,
                     gl |-> "None"]
    IN  IF cc.profile = "None" THEN fail(cc.calls)
        ELSE IF ~attrsOk THEN fail(cc.calls \o <<attrs>>)
        ELSE IF ~surfOk THEN fail(cc.calls \o <<attrs, surf>>)
        ELSE [res |-> "Ok",
              calls |-> cc.calls \o <<attrs, surf, mc>>
                        \o after_make_current(api, vsyncOk),
              context |-> [profile |-> cc.profile, api |-> api,
                           config |-> gl_config],
              gl |-> load_gl(api)]

\* create_run that unwraps the result of set_swap_interval.
create_run_vsync_fatal(gl_config, ok, api, attrsOk, surfOk, bindOk, vsyncOk) ==
    LET cc    == create_context_chain(ok)
        attrs == Call("build_surface_attributes", gl_config, attrsOk)
        surf  == Call("create_window_surface", gl_config, surfOk)
        mc    == Call("make_current", 1, bindOk)
        fail(cs) == [res |-> "Panic", calls |-> cs, context |-> NoContext,
                     gl |-> "None"]
    IN  IF cc.profile = "None" THEN fail(cc.calls)
        ELSE IF ~attrsOk THEN fail(cc.calls \o <<attrs>>)
        ELSE IF ~surfOk THEN fail(cc.calls \o <<attrs, surf>>)
        ELSE IF ~bindOk THEN fail(cc.calls \o <<attrs, surf, mc>>)
        ELSE IF ~vsyncOk
        THEN fail(cc.calls \o <<attrs, surf, mc, Call("set_swap_interval", 1, FALSE)>>)
        ELSE [res |-> "Ok",
              calls |-> cc.calls \o <<attrs, surf, mc>>
                        \o after_make_current(api, vsyncOk),
              context |-> [profile |-> cc.profile, api |-> api,
                           config |-> gl_config],
              gl |-> load_gl(api)]

\* One run of create, as [res, calls, context, gl]: res is "Ok" when
\* Ok((Self, surface)) is returned and "Panic" when an expect/unwrap fired.
create_run(gl_config, ok, api, attrsOk, surfOk, bindOk, vsyncOk) ==
    LET cc    == create_context_chain(ok)
        attrs == Call("build_surface_attributes", gl_config, attrsOk)
        surf  == Call("create_window_surface", gl_config, surfOk)
        mc    == Call("make_current", 1, bindOk)
        fail(cs) == [res |-> "Panic", calls |-> cs, context |-> NoContext,
                     gl |-> "None"]
    IN  IF cc.profile = "None" THEN fail(cc.calls)
        ELSE IF ~attrsOk THEN fail(cc.calls \o <<attrs>>)
        ELSE IF ~surfOk THEN fail(cc.calls \o <<attrs, surf>>)
        ELSE IF ~bindOk THEN fail(cc.calls \o <<attrs, surf, mc>>)
        ELSE [res |-> "Ok",
              calls |-> cc.calls \o <<attrs, surf, mc>>
                        \o after_make_current(api, vsyncOk),
              context |-> [profile |-> cc.profile, api |-> api,
                           config |-> gl_config],
              gl |-> load_gl(api)]

create ==
    /\ phase = "Uninitialized"
    /\ \E gl_config \in 1..MaxConfigs, sz \in Sizes, ok \in [Profiles -> BOOLEAN],
          attrsOk \in BOOLEAN, surfOk \in BOOLEAN, bindOk \in BOOLEAN,
          vsyncOk \in BOOLEAN :
        \E api \in UNION {ApisOf(p) : p \in Profiles} :
            LET r == create_run(gl_config, ok, api, attrsOk, surfOk, bindOk, vsyncOk)
            IN  /\ r.res = "Ok" => api \in ApisOf(r.context.profile)
                /\ calls' = r.calls
                /\ ret' = Ret("create", IF r.res = "Ok" THEN 1 ELSE NoSurface,
                              sz, r.res, NoSize)
                /\ IF r.res = "Ok"
                   THEN /\ phase' = "Live"
                        /\ this' = [context |-> r.context, size |-> sz, gl |-> r.gl]
                        /\ surfaces' = <<gl_config>>
                        /\ bound' = 1
                   ELSE /\ phase' = "Panicked"
                        /\ UNCHANGED <<this, surfaces, bound>>
    /\ UNCHANGED <<viewport, pickVars>>

\* -------------------------------------------------------------- operations
\* create_surface: the attributes, then a window surface from context.config().
create_surface_run(config, attrsOk, surfOk) ==
    LET attrs == Call("build_surface_attributes", config, attrsOk)
        surf  == Call("create_window_surface", config, surfOk)
    IN  IF ~attrsOk THEN [res |-> "Panic", calls |-> <<attrs>>]
        ELSE IF ~surfOk THEN [res |-> "Err", calls |-> <<attrs, surf>>]
        ELSE [res |-> "Ok", calls |-> <<attrs, surf>>]

\* create_surface that also makes the context current on the new surface.
create_surface_rebinds ==
    /\ phase = "Live"
    /\ Len(surfaces) < MaxSurfaces
    /\ \E attrsOk \in BOOLEAN, surfOk \in BOOLEAN :
        LET config == this.context.config
            r == create_surface_run(config, attrsOk, surfOk)
        IN  /\ calls' = r.calls
            /\ surfaces' = IF r.res = "Ok" THEN Append(surfaces, config) ELSE surfaces
            /\ bound' = IF r.res = "Ok" THEN Len(surfaces) + 1 ELSE bound
            /\ ret' = Ret("create_surface",
                          IF r.res = "Ok" THEN Len(surfaces) + 1 ELSE NoSurface,
                          NoSize, r.res, NoSize)
            /\ phase' = IF r.res = "Panic" THEN "Panicked" ELSE phase
    /\ UNCHANGED <<this, viewport, pickVars>>

create_surface ==
    /\ phase = "Live"
    /\ Len(surfaces) < MaxSurfaces
    /\ \E attrsOk \in BOOLEAN, surfOk \in BOOLEAN :
        LET config == this.context.config
            r == create_surface_run(config, attrsOk, surfOk)
        IN  /\ calls' = r.calls
            /\ surfaces' = IF r.res = "Ok" THEN Append(surfaces, config) ELSE surfaces
            /\ ret' = Ret("create_surface",
                          IF r.res = "Ok" THEN Len(surfaces) + 1 ELSE NoSurface,
                          NoSize, r.res, NoSize)
            /\ phase' = IF r.res = "Panic" THEN "Panicked" ELSE phase
    /\ UNCHANGED <<this, bound, viewport, pickVars>>

\* make_current_run that reports Ok without the binding moving.
make_current_run_stale(surface, bindOk) ==
    [res |-> IF bindOk THEN "Ok" ELSE "Err",
     calls |-> <<Call("make_current", surface, bindOk)>>,
     bound |-> bound]

\* make_gl_context_current: self.context.make_current(surface)?
make_current_run(surface, bindOk) ==
    [res |-> IF bindOk THEN "Ok" ELSE "Err",
     calls |-> <<Call("make_current", surface, bindOk)>>,
     bound |-> IF bindOk THEN surface ELSE bound]

make_gl_context_current ==
    /\ phase = "Live"
    /\ \E surface \in 1..Len(surfaces), bindOk \in BOOLEAN :
        LET r == make_current_run(surface, bindOk)
        IN  /\ calls' = r.calls
            /\ bound' = r.bound
            /\ ret' = Ret("make_gl_context_current", surface, NoSize, r.res, NoSize)
    /\ UNCHANGED <<phase, this, surfaces, viewport, pickVars>>

\* resize_run that validates the width alone: a zero height goes to the driver.
resize_run_width_only(surface, sz) ==
    IF NonZeroU32_new(sz.width) = "None" THEN [res |-> "Panic", calls |-> <<>>]
    ELSE [res |-> "Unit",
          calls |-> << Call("surface.resize", <<surface, sz.width, sz.height>>, TRUE),
                       Call("gl.viewport",
                            <<0, 0, as_i32(sz.width), as_i32(sz.height)>>, TRUE) >>]

\* resize: both NonZeroU32 unwraps are evaluated before surface.resize is
\* called; then the drawable is resized and the viewport set.
resize_run(surface, sz) ==
    IF NonZeroU32_new(sz.width) = "None" THEN [res |-> "Panic", calls |-> <<>>]
    ELSE IF NonZeroU32_new(sz.height) = "None" THEN [res |-> "Panic", calls |-> <<>>]
    ELSE [res |-> "Unit",
          calls |-> << Call("surface.resize", <<surface, sz.width, sz.height>>, TRUE),
                       Call("gl.viewport",
                            <<0, 0, as_i32(sz.width), as_i32(sz.height)>>, TRUE) >>]

\* resize that also stores the new size in the cache (a surface-driven cache).
resize_updates_cache ==
    /\ phase = "Live"
    /\ \E surface \in 1..Len(surfaces), sz \in Sizes :
        LET r == resize_run(surface, sz)
        IN  /\ calls' = r.calls
            /\ viewport' = IF r.res = "Unit" THEN r.calls[2].arg ELSE viewport
            /\ phase' = IF r.res = "Panic" THEN "Panicked" ELSE phase
            /\ this' = IF r.res = "Unit" THEN [this EXCEPT !.size = sz] ELSE this
            /\ ret' = Ret("resize", surface, sz, r.res, NoSize)
    /\ UNCHANGED <<surfaces, bound, pickVars>>

resize ==
    /\ phase = "Live"
    /\ \E surface \in 1..Len(surfaces), sz \in Sizes :
        LET r == resize_run(surface, sz)
        IN  /\ calls' = r.calls
            /\ viewport' = IF r.res = "Unit" THEN r.calls[2].arg ELSE viewport
            /\ phase' = IF r.res = "Panic" THEN "Panicked" ELSE phase
            /\ ret' = Ret("resize", surface, sz, r.res, NoSize)
    /\ UNCHANGED <<this, surfaces, bound, pickVars>>

\* present_run that skips the bind when the context is already current on some
\* surface.
present_run_no_rebind(surface, bindOk, swapOk) ==
    IF bound # NoSurface
    THEN [res |-> IF swapOk THEN "Ok" ELSE "Err",
          calls |-> <<Call("swap_buffers", surface, swapOk)>>,
          bound |-> bound]
    ELSE IF ~bindOk
    THEN [res |-> "Err", calls |-> <<Call("make_current", surface, FALSE)>>,
          bound |-> bound]
    ELSE [res |-> IF swapOk THEN "Ok" ELSE "Err",
          calls |-> << Call("make_current", surface, TRUE),
                       Call("swap_buffers", surface, swapOk) >>,
          bound |-> surface]

\* present_run with unwrap for ? on the swap: a rejected swap panics.
present_run_unwrap(surface, bindOk, swapOk) ==
    IF ~bindOk
    THEN [res |-> "Err", calls |-> <<Call("make_current", surface, FALSE)>>,
          bound |-> bound]
    ELSE [res |-> IF swapOk THEN "Ok" ELSE "Panic",
          calls |-> << Call("make_current", surface, TRUE),
                       Call("swap_buffers", surface, swapOk) >>,
          bound |-> surface]

\* present: make_current(surface)? then swap_buffers(&context)?
present_run(surface, bindOk, swapOk) ==
    IF ~bindOk
    THEN [res |-> "Err", calls |-> <<Call("make_current", surface, FALSE)>>,
          bound |-> bound]
    ELSE [res |-> IF swapOk THEN "Ok" ELSE "Err",
          calls |-> << Call("make_current", surface, TRUE),
                       Call("swap_buffers", surface, swapOk) >>,
          bound |-> surface]

present ==
    /\ phase = "Live"
    /\ \E surface \in 1..Len(surfaces), bindOk \in BOOLEAN, swapOk \in BOOLEAN :
        LET r == present_run(surface, bindOk, swapOk)
        IN  /\ calls' = r.calls
            /\ bound' = r.bound
            /\ ret' = Ret("present", surface, NoSize, r.res, NoSize)
    /\ UNCHANGED <<phase, this, surfaces, viewport, pickVars>>

\* size(): self.size.get()
size_get == this.size

size ==
    /\ phase = "Live"
    /\ calls' = <<>>
    /\ ret' = Ret("size", NoSurface, NoSize, "Ok", size_get)
    /\ UNCHANGED <<phase, this, surfaces, bound, viewport, pickVars>>

\* size2d(): Size2D::new(size.width, size.height) of self.size()
size2d ==
    /\ phase = "Live"
    /\ calls' = <<>>
    /\ ret' = Ret("size2d", NoSurface, NoSize, "Ok",
                  Size2D_new(size_get.width, size_get.height))
    /\ UNCHANGED <<phase, this, surfaces, bound, viewport, pickVars>>

\* The caller's explicit update of the cached size (section 3 of the design:
\* "the cached size is updated externally"); the source has no such method.
set_size ==
    /\ phase = "Live"
    /\ \E sz \in Sizes :
        /\ this' = [this EXCEPT !.size = sz]
        /\ ret' = Ret("set_size", NoSurface, sz, "Unit", NoSize)
    /\ calls' = <<>>
    /\ UNCHANGED <<phase, surfaces, bound, viewport, pickVars>>

\* The selector applied to the enumerated configurations.
pick ==
    /\ picked.res = "none"
    /\ picked' = gl_config_picker(configs)
    /\ UNCHANGED <<configs, rcVars>>

\* ---------------------------------------------------------- specifications
InitRc ==
    /\ phase = "Uninitialized"
    /\ this = [context |-> NoContext, size |-> NoSize, gl |-> "None"]
    /\ surfaces = <<>>
    /\ bound = NoSurface
    /\ viewport = <<>>
    /\ calls = <<>>
    /\ ret = NoRet

Init ==
    /\ InitRc
    /\ configs = <<>>
    /\ picked = [res |-> "none", config |-> NoPick]

Next ==
    \/ create
    \/ create_surface
    \/ make_gl_context_current
    \/ resize
    \/ present
    \/ size
    \/ size2d

Spec == Init /\ [][Next]_vars

\* The context with a caller that also updates the cached size.
NextCallerSize == Next \/ set_size

SpecCallerSize == Init /\ [][NextCallerSize]_vars

\* The selector on every enumeration of at most MaxLen configurations.
InitPicker ==
    /\ InitRc
    /\ \E n \in 0..MaxLen : configs \in ConfigSeqs(n)
    /\ picked = [res |-> "none", config |-> NoPick]

NextPicker == pick

SpecPicker == InitPicker /\ [][NextPicker]_vars

\* ------------------------------------------------------------------ claims
IsCreateContext(c) == c.fn = "create_context"

\* The create_context calls of the last operation, in the order issued.
CreateAttempts == SelectSeq(calls, IsCreateContext)

ChainOrder == <<"Core", "Gles", "Legacy">>

IsZero(x) == x.hi = 0 /\ x.lo = 0

Issued(f) == \E i \in 1..Len(calls) : calls[i].fn = f

\* C1: create attempts context creation in the order Core, GLES, legacy 2.1;
\* an attempt is made only if every earlier one failed, so a success is the
\* last attempt made, and the context of a returned RenderingContext is the
\* one that attempt created.
C1_FallbackOrder ==
    ret.op = "create" =>
        LET a == CreateAttempts
        IN  /\ Len(a) \in 1..3
            /\ calls[1].fn = "create_context"
            /\ \A i \in 1..Len(a) : a[i].arg = ChainOrder[i]
            /\ \A i \in 1..Len(a) : a[i].ok => i = Len(a)
            /\ \A i \in 1..Len(a) : i < Len(a) => ~a[i].ok
            /\ ret.res = "Ok" =>
                   /\ a[Len(a)].ok
                   /\ this.context.profile = a[Len(a)].arg

\* Core and GLES were refused, legacy was granted, and create returned.
C1_Witness ==
    /\ ret.op = "create"
    /\ ret.res = "Ok"
    /\ Len(CreateAttempts) = 3
    /\ this.context.profile = "Legacy"

\* C2 (as claimed): when the Core, GLES and legacy attempts all fail, create
\* returns a ContextCreationError to its caller and no RenderingContext.
C2_AllFailedYieldsError ==
    ( /\ ret.op = "create"
      /\ Len(CreateAttempts) = 3
      /\ \A i \in 1..3 : ~CreateAttempts[i].ok )
    => (ret.res = "Err" /\ phase # "Live")

\* C3: in every present(surface) the first call is make_current on that
\* surface; swap_buffers is issued only directly after that bind succeeded,
\* on the same surface, and not at all when the bind is rejected.
C3_BindBeforeSwap ==
    ret.op = "present" =>
        /\ Len(calls) >= 1
        /\ calls[1].fn = "make_current"
        /\ calls[1].arg = ret.surface
        /\ \A i \in 1..Len(calls) :
               calls[i].fn = "swap_buffers" =>
                   /\ i = 2
                   /\ calls[1].ok
                   /\ calls[i].arg = ret.surface
        /\ ~calls[1].ok => (~Issued("swap_buffers") /\ ret.res = "Err")

\* A present that swapped a surface other than the one bound before the call.
C3_Witness ==
    /\ ret.op = "present"
    /\ Issued("swap_buffers")
    /\ ret.was # NoSurface
    /\ ret.was # ret.surface

\* C4: resize with a zero width or a zero height fails (panics) before any
\* driver call: neither surface.resize nor gl.viewport is issued, and the
\* viewport never holds a zero dimension.
C4_ZeroResizeFails ==
    /\ (ret.op = "resize" /\ (IsZero(ret.size.width) \/ IsZero(ret.size.height)))
       => (ret.res = "Panic" /\ calls = <<>>)
    /\ viewport # <<>> => (viewport[3] # 0 /\ viewport[4] # 0)

\* resize with a positive width and a zero height.
C4_Witness ==
    /\ ret.op = "resize"
    /\ ~IsZero(ret.size.width)
    /\ IsZero(ret.size.height)
    /\ ret.res = "Panic"

\* C5 (as claimed): resize, present and make_gl_context_current act on their
\* surface (resize the drawable, set the viewport, swap) only with the context
\* current on that surface.
C5_CurrentBeforeActing ==
    ( /\ ret.op \in {"resize", "present", "make_gl_context_current"}
      /\ (Issued("surface.resize") \/ Issued("gl.viewport") \/ Issued("swap_buffers")) )
    => bound = ret.surface

Supports(c) == c.supports_transparency = "SomeTrue"

\* The replacement rule of the claim: (a) or (b).
Replaces(candidate, best) ==
    \/ Supports(candidate) /\ ~Supports(best)
    \/ candidate.num_samples > best.num_samples

\* The best of the first k candidates under that rule.
RECURSIVE BestOfFirst(_, _)
BestOfFirst(cs, k) ==
    IF k = 1 THEN cs[1]
    ELSE LET best == BestOfFirst(cs, k - 1)
         IN  IF Replaces(cs[k], best) THEN cs[k] ELSE best

C8_TransparencyWins ==
    (picked.res = "Ok" /\ \E i \in 1..Len(configs) : Supports(configs[i]))
    => Supports(picked.config)

\* C9 (as claimed): the returned configuration has the maximum sample count
\* of the sequence.
C9_MaxSamples ==
    picked.res = "Ok" =>
        \A i \in 1..Len(configs) : picked.config.num_samples >= configs[i].num_samples

\* C10: the selector called with an empty sequence fails (panics) and returns
\* no configuration.
C10_EmptyFails ==
    (configs = <<>> /\ picked.res # "none") =>
        (picked.res = "Panic" /\ picked.config = NoPick)

\* The selector has run on the empty sequence.
C10_Witness == configs = <<>> /\ picked.res = "Panic"

\* The index of the first call of the last operation to f, 0 when there is none.
FirstCall(f) ==
    IF Issued(f) THEN CHOOSE i \in 1..Len(calls) :
                          calls[i].fn = f /\ \A j \in 1..(i - 1) : calls[j].fn # f
    ELSE 0

\* Some call of the last operation to f was refused by the platform.
Refused(f) == \E i \in 1..Len(calls) : calls[i].fn = f /\ ~calls[i].ok

\* C11: the table create loads and stores is the one of the API the bound
\* context reports (GlFns for OpenGl, GlesFns for Gles); a context obtained
\* from the legacy 2.1 attributes after Core and GLES failed carries the
\* desktop table, never the GLES one.
C11_TableMatchesBoundApi ==
    /\ phase = "Live" =>
           /\ this.context.api = "OpenGl" => this.gl = "GlFns"
           /\ this.context.api = "Gles" => this.gl = "GlesFns"
           /\ this.context.api \in {"OpenGl", "Gles"}
           /\ this.context.profile = "Legacy" => this.gl = "GlFns"
    /\ (ret.op = "create" /\ ret.res = "Ok") =>
           /\ this.context.profile = CreateAttempts[Len(CreateAttempts)].arg
           /\ \A i \in 1..Len(calls) :
                  calls[i].fn = "load_with" => calls[i].arg = this.gl

\* Core and GLES refused, legacy granted: bound to legacy with the desktop table.
C11_Witness ==
    /\ ret.op = "create"
    /\ ret.res = "Ok"
    /\ Len(CreateAttempts) = 3
    /\ this.context.profile = "Legacy"
    /\ this.gl = "GlFns"
    /\ Issued("load_with")

\* C12: create returns a RenderingContext only when a context was created,
\* the window surface was created and the initial make_current succeeded; a
\* refused surface or a rejected bind is a hard failure (a panic) with no
\* RenderingContext, no surface and no table load in that run.
C12_CreationFailuresAreHard ==
    ret.op = "create" =>
        /\ (Refused("create_window_surface") \/ Refused("make_current")) =>
               /\ ret.res = "Panic"
               /\ phase = "Panicked"
               /\ ret.surface = NoSurface
               /\ surfaces = <<>>
               /\ this.gl = "None"
               /\ ~Issued("load_with")
        /\ ret.res = "Ok" =>
               /\ \E i \in 1..Len(CreateAttempts) : CreateAttempts[i].ok
               /\ Issued("create_window_surface")
               /\ ~Refused("create_window_surface")
               /\ Issued("make_current")
               /\ ~Refused("make_current")
        /\ phase = "Live" <=> ret.res = "Ok"

\* The context and the surface were created and the initial bind was rejected.
C12_Witness ==
    /\ ret.op = "create"
    /\ Issued("create_window_surface")
    /\ ~Refused("create_window_surface")
    /\ Refused("make_current")
    /\ ret.res = "Panic"

\* A make_gl_context_current that returns Ok can be taken.
CanBindAgain == ENABLED (make_gl_context_current /\ ret'.res = "Ok")

\* A present that returns Ok can be taken.
CanPresentAgain == ENABLED (present /\ ret'.res = "Ok")

\* C13: a bind rejected in make_gl_context_current, or a bind or swap rejected
\* in present, is returned as Err (Ok exactly when every step succeeded); the
\* cached size and the table are left as they were, the context stays live,
\* and a later make_current or present can still succeed.
C13_SteadyStateErrorsAreTyped ==
    /\ [](ret.op \in {"make_gl_context_current", "present"} =>
            /\ ret.res \in {"Ok", "Err"}
            /\ ret.res = "Ok" <=> \A i \in 1..Len(calls) : calls[i].ok
            /\ phase = "Live"
            /\ CanBindAgain
            /\ CanPresentAgain)
    /\ [][ret'.op \in {"make_gl_context_current", "present"} =>
            (this'.size = this.size /\ this'.gl = this.gl)]_vars

\* A present whose bind succeeded and whose swap was rejected.
C13_Witness ==
    /\ ret.op = "present"
    /\ ret.res = "Err"
    /\ Refused("swap_buffers")
    /\ phase = "Live"

\* C14: set_swap_interval is requested only after the successful make_current
\* on the new surface; when it is rejected create still loads the table and
\* returns the RenderingContext and the surface, and what it returns is what
\* it returns when the request succeeds.
C14_VsyncFailureIsSwallowed ==
    ret.op = "create" =>
        /\ Issued("set_swap_interval") =>
               /\ FirstCall("make_current") # 0
               /\ FirstCall("make_current") < FirstCall("set_swap_interval")
               /\ calls[FirstCall("make_current")].ok
               /\ calls[FirstCall("make_current")].arg = ret.surface
        /\ Refused("set_swap_interval") =>
               /\ ret.res = "Ok"
               /\ phase = "Live"
               /\ bound = ret.surface
               /\ FirstCall("load_with") > FirstCall("set_swap_interval")
               /\ this.gl = calls[FirstCall("load_with")].arg
               /\ this.size = ret.size
        /\ \A gl_config \in 1..MaxConfigs, ok \in [Profiles -> BOOLEAN],
              api \in {"OpenGl", "Gles"}, attrsOk \in BOOLEAN, surfOk \in BOOLEAN,
              bindOk \in BOOLEAN :
               LET good == create_run(gl_config, ok, api, attrsOk, surfOk, bindOk, TRUE)
                   bad  == create_run(gl_config, ok, api, attrsOk, surfOk, bindOk, FALSE)
               IN  /\ bad.res = good.res
                   /\ bad.context = good.context
                   /\ bad.gl = good.gl
                   /\ Len(bad.calls) = Len(good.calls)

\* create returned although the vsync request was rejected.
C14_Witness ==
    /\ ret.op = "create"
    /\ Refused("set_swap_interval")
    /\ ret.res = "Ok"
    /\ this.gl # "None"

\* C15: a successful create leaves the context current on the surface it
\* returns; a successful make_gl_context_current(Sj) or present(Sj) leaves it
\* current on Sj; a live context is always current on one of its surfaces, and
\* once create has run the context is never Uninitialized again.
C15_BindingStateMachine ==
    /\ []( /\ (ret.op = "create" /\ ret.res = "Ok") =>
                  (phase = "Live" /\ bound = ret.surface /\ bound = 1)
           /\ (ret.op \in {"make_gl_context_current", "present"} /\ ret.res = "Ok") =>
                  (phase = "Live" /\ bound = ret.surface)
           /\ phase = "Live" => bound \in 1..Len(surfaces)
           /\ phase = "Uninitialized" <=> ret.op = "none" )
    /\ [][phase # "Uninitialized" => phase' # "Uninitialized"]_vars

\* A make_gl_context_current that moved the binding from one surface to another.
C15_Witness ==
    /\ ret.op = "make_gl_context_current"
    /\ ret.res = "Ok"
    /\ ret.was # NoSurface
    /\ ret.was # ret.surface
    /\ bound = ret.surface

\* C16: create_surface asks the display for a surface of the config of the
\* live context, which is the config create was given; the binding, the cached
\* size and the table are the same after the call as before it, whatever its
\* outcome.
C16_CreateSurfaceFrame ==
    /\ [](phase # "Uninitialized" /\ surfaces # <<>> =>
            /\ this.context.config = surfaces[1]
            /\ \A s \in 1..Len(surfaces) : surfaces[s] = this.context.config)
    /\ [](ret.op = "create_surface" =>
            /\ \A i \in 1..Len(calls) :
                   calls[i].fn = "create_window_surface" =>
                       calls[i].arg = this.context.config
            /\ ret.res = "Ok" <=> (Issued("create_window_surface")
                                    /\ ~Refused("create_window_surface"))
            /\ ret.res = "Ok" => ret.surface = Len(surfaces))
    /\ [][ret'.op = "create_surface" =>
            /\ this' = this
            /\ bound' = bound
            /\ viewport' = viewport]_vars

\* A create_surface that returned Err, called after a resize of the first
\* surface.
C16_Witness ==
    /\ ret.op = "create_surface"
    /\ ret.res = "Err"
    /\ viewport # <<>>
    /\ bound = 1
    /\ Len(surfaces) = 1

LoadCalls == SelectSeq(calls, LAMBDA c : c.fn = "load_with")

\* C17: the table is loaded once, in create, after the successful
\* make_current on the initial surface; no other operation loads a table, and
\* the table of a live context never changes.
C17_TableLoadedOnce ==
    /\ [](IF ret.op = "create"
          THEN /\ Len(LoadCalls) = (IF ret.res = "Ok" THEN 1 ELSE 0)
               /\ ret.res = "Ok" =>
                      /\ FirstCall("make_current") # 0
                      /\ FirstCall("make_current") < FirstCall("load_with")
                      /\ calls[FirstCall("make_current")].ok
                      /\ calls[FirstCall("make_current")].arg = ret.surface
                      /\ this.gl = LoadCalls[1].arg
          ELSE Len(LoadCalls) = 0)
    /\ [](phase = "Live" => this.gl \in {"GlFns", "GlesFns"})
    /\ [][phase = "Live" => this'.gl = this.gl]_vars

\* A context with the GLES table after a present on a second surface.
C17_Witness ==
    /\ ret.op = "present"
    /\ ret.res = "Ok"
    /\ ret.surface = 2
    /\ this.gl = "GlesFns"

\* The i32 i and the u32 u are the same number.
SameNumber(i, u) == u.hi = 0 /\ i = u.lo

\* C18 (as claimed): for a positive width and height resize calls
\* surface.resize(width, height) and then gl.viewport(0, 0, w, h) with w and h
\* equal to the requested width and height, also for values of 2^31 and more.
C18_ViewportEqualsRequest ==
    (ret.op = "resize" /\ ~IsZero(ret.size.width) /\ ~IsZero(ret.size.height)) =>
        /\ Len(calls) = 2
        /\ calls[1].fn = "surface.resize"
        /\ calls[1].arg = <<ret.surface, ret.size.width, ret.size.height>>
        /\ calls[2].fn = "gl.viewport"
        /\ calls[2].arg[1] = 0
        /\ calls[2].arg[2] = 0
        /\ SameNumber(calls[2].arg[3], ret.size.width)
        /\ SameNumber(calls[2].arg[4], ret.size.height)

====
